---------------------------- MODULE Spec2Model ----------------------------
(***************************************************************************)
(* A model of main.py: the data model of a capacitated vehicle routing     *)
(* problem (distance matrix, expanded fleet, signed demands), the          *)
(* registration of the per-vehicle arc-cost callbacks and of the capacity  *)
(* dimension, the search of the routing library, and the printed report.   *)
(*                                                                         *)
(* Numbers.  Angles are degrees on the lattice {0, 90}, where the          *)
(* haversine formula is exact.  A distance is counted in quarter great     *)
(* circles (r * pi / 2 kilometers, r = 6371).  Cost coefficients and the   *)
(* costs of the report are floats in the program; here they are counted in *)
(* halves (the value 3 stands for 1.5), the cost per kilometer being taken *)
(* per unit of distance.  What the callback returns, int(round(cost)), is  *)
(* a whole number.                                                         *)
(*                                                                         *)
(* Indices.  Nodes are 0..N as in the program, node 0 being the depot.     *)
(* Vehicles are 1..num_vehicles: vehicle v here is index v-1 there, and    *)
(* vehicle = 0 stands for the loop variable before the loop has bound it.  *)
(***************************************************************************)
EXTENDS Integers, Sequences, FiniteSets, TLC

VARIABLES json_data, data, pc, vehicle, cache_callbacks, evaluators,
          dimension, routes, solution, stdout

vars == <<json_data, data, pc, vehicle, cache_callbacks, evaluators,
          dimension, routes, solution, stdout>>

(***************************************************************************)
(* Bounds of the inputs.                                                   *)
(***************************************************************************)
MaxMissions == 2
MaxTypes == 2
MaxCount == 2
MaxCapacity == 2
MaxCost == 3

Angles == {0, 90}

(***************************************************************************)
(* Helpers for Python values.                                              *)
(***************************************************************************)
None == <<>>
Some(x) == <<x>>

\* [x] * n : n copies of x, the empty list when n <= 0
Repeat(x, n) == [i \in 1..n |-> x]

RECURSIVE SumSeq(_)
SumSeq(s) == IF s = <<>> THEN 0 ELSE Head(s) + SumSeq(Tail(s))

Range(s) == {s[i] : i \in 1..Len(s)}

SeqsFromTo(S, lo, hi) == UNION {[1..k -> S] : k \in lo..hi}

\* Python 3 round() of a value counted in halves: ties go to the even integer
round(h) ==
  LET fl == h \div 2
  IN  IF h % 2 = 0 THEN fl
      ELSE IF fl % 2 = 0 THEN fl ELSE fl + 1

(***************************************************************************)
(* haversine, lines 22-46, on the lattice of multiples of 90 degrees.      *)
(***************************************************************************)
\* math.cos of an angle in degrees
Cos(x) == CASE x = 0 -> 1
            [] x = 90 -> 0
            [] x = -90 -> 0
            [] x = 180 -> -1
            [] x = -180 -> -1

\* 2 * sin(d/2)**2 = 1 - cos(d)
TwoSinSqHalf(d) == 1 - Cos(d)

\* c = 2 * asin(sqrt(a)) in quarter turns, from 2a: a = 0, 1/2, 1 give 0, 1, 2
TwoAsinSqrt(twoA) == CASE twoA = 0 -> 0
                       [] twoA = 1 -> 1
                       [] twoA = 2 -> 2

haversine(lat1, lon1, lat2, lon2) ==
  LET dlat == lat2 - lat1
      dlon == lon2 - lon1
      twoA == TwoSinSqHalf(dlat) + Cos(lat1) * Cos(lat2) * TwoSinSqHalf(dlon)
  IN  TwoAsinSqrt(twoA)

\* a location is a tuple <<latitude, longitude>>: loc[1] is Python's loc[0]
haversine_all_locations(locations) ==
  [a \in 0..(Len(locations) - 1) |->
     [b \in 0..(Len(locations) - 1) |->
        LET loc_a == locations[a + 1]
            loc_b == locations[b + 1]
        IN  haversine(loc_a[2], loc_a[1], loc_b[2], loc_b[1])]]

(***************************************************************************)
(* create_data_model, lines 67-101.                                        *)
(***************************************************************************)
Locations(json) ==
  <<  <<json.warehouse.latitude, json.warehouse.longitude>>  >> \o
  [i \in 1..Len(json.missions) |->
     <<json.missions[i].latitude, json.missions[i].longitude>>]

RECURSIVE ExpandPrepend(_, _)
\* Expand with each type's block put in front of the list, not at its end
ExpandPrepend(types, field) ==
  IF types = <<>> THEN <<>>
  ELSE ExpandPrepend(Tail(types), field)
         \o Repeat(Head(types)[field], Head(types).number_of_vehicles)

RECURSIVE Expand(_, _)
\* the loop of lines 87-90 for one attribute: list += [attributes[field]] * count
Expand(types, field) ==
  IF types = <<>> THEN <<>>
  ELSE Repeat(Head(types)[field], Head(types).number_of_vehicles)
         \o Expand(Tail(types), field)

\* Demands with the two signs exchanged
DemandsSwapped(missions) ==
  [n \in 0..Len(missions) |->
     IF n = 0 THEN 0
     ELSE IF missions[n].return THEN 1 ELSE -1]

Demands(missions) ==
  [n \in 0..Len(missions) |->
     IF n = 0 THEN 0
     ELSE IF missions[n].return THEN -1 ELSE 1]

EmptyData ==
  [distance_matrix |-> <<>>, num_vehicles |-> 0, depot |-> 0,
   vehicle_capacities |-> <<>>,
   vehicle_costs |-> [distance_cost |-> <<>>, delivery_cost |-> <<>>],
   demands |-> <<>>]

create_data_model(json) ==
  [distance_matrix |-> haversine_all_locations(Locations(json)),
   num_vehicles |->
     SumSeq([i \in 1..Len(json.Vehicles) |-> json.Vehicles[i].number_of_vehicles]),
   depot |-> 0,
   vehicle_capacities |-> Expand(json.Vehicles, "capacity"),
   vehicle_costs |->
     [distance_cost |-> Expand(json.Vehicles, "cost_per_kilometers"),
      delivery_cost |-> Expand(json.Vehicles, "cost_per_delivery")],
   demands |-> Demands(json.missions)]

Nodes == 0..(Len(json_data.missions))
Missions == 1..(Len(json_data.missions))
VehicleIds == 1..data.num_vehicles


(***************************************************************************)
(* The arc-cost callbacks of main, lines 158-169.  cost_callback is a      *)
(* closure: it reads the variable vehicle of main when it is called, so    *)
(* the binding it sees is passed here as veh.                              *)
(***************************************************************************)
cost_callback(veh, from_node, to_node) ==
  LET cost0 == data.vehicle_costs.distance_cost[veh]
                 * data.distance_matrix[from_node][to_node]
      cost1 == IF to_node # data.depot /\ from_node # data.depot
               THEN cost0 + data.vehicle_costs.delivery_cost[veh]
               ELSE cost0
  IN  round(cost1)

\* RegisterTransitCallback: a library that caches callbacks calls
\* cost_callback for every arc at once and keeps the table; one that does
\* not keeps the closure and calls it during the search.
RegisterTransitCallback(veh) ==
  IF cache_callbacks
  THEN [cached |-> TRUE,
        table |-> [f \in Nodes |-> [t \in Nodes |-> cost_callback(veh, f, t)]]]
  ELSE [cached |-> FALSE, table |-> <<>>]

\* the arc cost the solver obtains from the evaluator set for vehicle v
ArcCostEvaluator(v, from_node, to_node) ==
  IF evaluators[v].cached
  THEN evaluators[v].table[from_node][to_node]
  ELSE cost_callback(vehicle, from_node, to_node)

(***************************************************************************)
(* The capacity dimension of main, lines 172-185.                          *)
(***************************************************************************)
demand_callback(from_node) == data.demands[from_node]

\* CapacityDimension with a slack of one unit allowed
CapacityDimensionWithSlack ==
  [slack_max |-> 1,
   capacities |-> data.vehicle_capacities,
   fix_start_cumul_to_zero |-> TRUE]

\* the arguments of AddDimensionWithVehicleCapacity
CapacityDimension ==
  [slack_max |-> 0,
   capacities |-> data.vehicle_capacities,
   fix_start_cumul_to_zero |-> TRUE]

RECURSIVE CumulsAlong(_, _, _)
\* the values the cumul variable can take after the nodes of path, from the
\* values S it can take before: cumul(next) = cumul + transit + slack, with
\* 0 <= slack <= slack_max and 0 <= cumul <= capacity
CumulsAlong(path, S, cap) ==
  IF path = <<>> THEN S
  ELSE CumulsAlong(Tail(path),
         {c + demand_callback(Head(path)) + s :
            c \in S, s \in 0..dimension.slack_max} \cap (0..cap),
         cap)

\* RouteFeasible with the lower bound only: no capacity stops the load
RouteFeasibleNoCeiling(v, route) ==
  CumulsAlong(<<data.depot>> \o route, {0}, Len(route)) # {}

\* route is the sequence of missions of vehicle v, between start and end
RouteFeasible(v, route) ==
  LET cap == dimension.capacities[v]
      start == IF dimension.fix_start_cumul_to_zero THEN {0} \cap (0..cap)
               ELSE 0..cap
  IN  CumulsAlong(<<data.depot>> \o route, start, cap) # {}

(***************************************************************************)
(* The state of the search of SolveWithParameters, line 199.               *)
(***************************************************************************)
Routed == UNION {Range(routes[v]) : v \in DOMAIN routes}
Unrouted == Missions \ Routed

InsertAt(route, pos, m) ==
  SubSeq(route, 1, pos - 1) \o <<m>> \o SubSeq(route, pos, Len(route))

\* RemoveNode that leaves the node where it was
RemoveNodeKeeps(route, m) == route

RemoveNode(route, m) == SelectSeq(route, LAMBDA n : n # m)

(***************************************************************************)
(* print_solution, lines 103-138.                                          *)
(***************************************************************************)
\* the nodes the walk of lines 120-130 visits, and the node it reaches last
Visited(route) == <<data.depot>> \o route
NextOf(route, i) == IF i < Len(Visited(route)) THEN Visited(route)[i + 1]
                    ELSE data.depot

\* segment_cost of lines 124-127, in halves
SegmentCost(vehicle_id, node_index, next_node_index) ==
  LET distance_cost == data.distance_matrix[node_index][next_node_index]
                         * data.vehicle_costs.distance_cost[vehicle_id]
      delivery_action == data.demands[next_node_index] # 0
      delivery_cost == IF delivery_action
                       THEN data.vehicle_costs.delivery_cost[vehicle_id]
                       ELSE 0
  IN  distance_cost + delivery_cost

RouteDistance(route) ==
  SumSeq([i \in 1..Len(Visited(route)) |->
            data.distance_matrix[Visited(route)[i]][NextOf(route, i)]])

RouteCost(vehicle_id, route) ==
  SumSeq([i \in 1..Len(Visited(route)) |->
            SegmentCost(vehicle_id, Visited(route)[i], NextOf(route, i))])

print_solution(sol) ==
  [vehicle_id \in 1..data.num_vehicles |->
     [kind |-> "route", vehicle |-> vehicle_id,
      plan |-> Visited(sol[vehicle_id]) \o <<data.depot>>,
      distance |-> RouteDistance(sol[vehicle_id]),
      cost |-> RouteCost(vehicle_id, sol[vehicle_id])]]
  \o
  << [kind |-> "total", vehicle |-> 0, plan |-> <<>>,
      distance |-> SumSeq([v \in 1..data.num_vehicles |-> RouteDistance(sol[v])]),
      cost |-> SumSeq([v \in 1..data.num_vehicles |-> RouteCost(v, sol[v])])] >>

(***************************************************************************)
(* Inputs.                                                                 *)
(***************************************************************************)
VehicleTypes(caps, counts, kms, dels) ==
  [capacity : caps, number_of_vehicles : counts,
   cost_per_kilometers : kms, cost_per_delivery : dels]

MissionRecs(lats, lons, rets) ==
  [latitude : lats, longitude : lons, return : rets]

Inputs(warehouses, fleets, missionSeqs) ==
  [warehouse : warehouses, Vehicles : fleets, missions : missionSeqs]

Origin == [latitude |-> 0, longitude |-> 0]

\* fleets the routing library does not accept: no vehicle at all, a
\* negative count, which leaves the lists longer than num_vehicles, and a
\* negative capacity
InvalidFleets ==
  { << [capacity |-> 1, number_of_vehicles |-> -1,
        cost_per_kilometers |-> 2, cost_per_delivery |-> 2] >>,
    << [capacity |-> 1, number_of_vehicles |-> 2,
        cost_per_kilometers |-> 2, cost_per_delivery |-> 2],
       [capacity |-> 1, number_of_vehicles |-> -1,
        cost_per_kilometers |-> 2, cost_per_delivery |-> 2] >>,
    << [capacity |-> -1, number_of_vehicles |-> 1,
        cost_per_kilometers |-> 2, cost_per_delivery |-> 2] >> }

InitState(inputs) ==
  /\ json_data \in inputs
  /\ data = EmptyData
  /\ pc = "start"
  /\ vehicle = 0
  /\ cache_callbacks = FALSE
  /\ evaluators = <<>>
  /\ dimension = [slack_max |-> 0, capacities |-> <<>>,
                  fix_start_cumul_to_zero |-> FALSE]
  /\ routes = <<>>
  /\ solution = None
  /\ stdout = <<>>

\* cost per kilometer and cost per delivery of a vehicle type
CostProfiles == {<<1, 0>>, <<2, 3>>}

\* any mapping of vehicle types, valid or not, with no mission to route;
\* and small fleets with one mission
FleetInputs ==
  Inputs({Origin},
         SeqsFromTo({[capacity |-> c, number_of_vehicles |-> n,
                      cost_per_kilometers |-> p[1], cost_per_delivery |-> p[2]] :
                       c \in 0..MaxCapacity, n \in -1..MaxCount, p \in CostProfiles},
                    1, MaxTypes)
           \cup InvalidFleets,
         {<<>>})
  \cup
  Inputs({Origin},
         SeqsFromTo(VehicleTypes({0, 1}, {1}, {2}, {2}), 1, 2),
         SeqsFromTo(MissionRecs({0}, {0}, {FALSE}), 1, 1))

\* vehicles of differing capacities, missions of either sign
SolveInputs ==
  Inputs({Origin},
         SeqsFromTo(VehicleTypes(0..MaxCapacity, {1}, {2}, {2}), 1, MaxTypes)
           \cup InvalidFleets,
         SeqsFromTo(MissionRecs({0}, {0}, BOOLEAN), 0, MaxMissions))

\* vehicles of differing cost coefficients, two missions anywhere
CostInputs ==
  Inputs({Origin},
         SeqsFromTo(VehicleTypes({2}, {1}, 1..MaxCost, 0..MaxCost), 1, MaxTypes)
           \cup InvalidFleets,
         SeqsFromTo(MissionRecs(Angles, Angles, {FALSE}), 2, 2))

Init == InitState(FleetInputs)
InitSolve == InitState(SolveInputs)
InitCost == InitState(CostInputs)

(***************************************************************************)
(* main, lines 139-203.                                                    *)
(***************************************************************************)
\* lines 146-149
CreateDataModel ==
  /\ pc = "start"
  /\ data' = create_data_model(json_data)
  /\ pc' = "data"
  /\ UNCHANGED <<json_data, vehicle, cache_callbacks, evaluators, dimension,
                 routes, solution, stdout>>

\* lines 152-155: the index manager and the routing model; whether the
\* library caches the callbacks depends on its version and on the size
CreateRouting ==
  /\ pc = "data"
  /\ data.num_vehicles >= 1
  /\ cache_callbacks' \in BOOLEAN
  /\ pc' = "register"
  /\ UNCHANGED <<json_data, data, vehicle, evaluators, dimension, routes,
                 solution, stdout>>

\* line 152: the index manager needs at least one vehicle
ManagerRejects ==
  /\ pc = "data"
  /\ data.num_vehicles < 1
  /\ pc' = "crashed"
  /\ UNCHANGED <<json_data, data, vehicle, cache_callbacks, evaluators,
                 dimension, routes, solution, stdout>>

\* lines 159-169: one iteration of the loop
RegisterCostCallback ==
  /\ pc = "register"
  /\ vehicle < data.num_vehicles
  /\ vehicle' = vehicle + 1
  /\ evaluators' = Append(evaluators, RegisterTransitCallback(vehicle + 1))
  /\ UNCHANGED <<json_data, data, pc, cache_callbacks, dimension, routes,
                 solution, stdout>>

DimensionAccepted ==
  /\ Len(data.vehicle_capacities) = data.num_vehicles
  /\ \A v \in 1..Len(data.vehicle_capacities) : data.vehicle_capacities[v] >= 0

\* lines 173-195
AddDimension ==
  /\ pc = "register"
  /\ vehicle = data.num_vehicles
  /\ DimensionAccepted
  /\ dimension' = CapacityDimension
  /\ routes' = [v \in VehicleIds |-> <<>>]
  /\ pc' = "search"
  /\ UNCHANGED <<json_data, data, vehicle, cache_callbacks, evaluators,
                 solution, stdout>>

\* line 180: one capacity per vehicle, none negative
DimensionRejects ==
  /\ pc = "register"
  /\ vehicle = data.num_vehicles
  /\ ~DimensionAccepted
  /\ pc' = "crashed"
  /\ UNCHANGED <<json_data, data, vehicle, cache_callbacks, evaluators,
                 dimension, routes, solution, stdout>>

\* construction: an unrouted mission enters a route where the dimension
\* stays feasible
Insert(m, v, pos) ==
  /\ pc = "search"
  /\ m \in Unrouted
  /\ LET new == InsertAt(routes[v], pos, m)
     IN  /\ RouteFeasible(v, new)
         /\ routes' = [routes EXCEPT ![v] = new]
  /\ UNCHANGED <<json_data, data, pc, vehicle, cache_callbacks, evaluators,
                 dimension, solution, stdout>>

\* local search, once every mission is routed: an accepted move takes a
\* mission to another place, every route staying feasible
Relocate(m, v, pos) ==
  /\ pc \in {"search", "refined"}
  /\ Unrouted = {}
  /\ LET removed == [u \in DOMAIN routes |-> RemoveNode(routes[u], m)]
         new == [removed EXCEPT ![v] = InsertAt(removed[v], pos, m)]
     IN  /\ pos <= Len(removed[v]) + 1
         /\ new # routes
         /\ \A u \in DOMAIN routes : RouteFeasible(u, new[u])
         /\ routes' = new
  /\ pc' = "refined"
  /\ UNCHANGED <<json_data, data, vehicle, cache_callbacks, evaluators,
                 dimension, solution, stdout>>

\* line 199: the search ends with every mission routed
SolveFound ==
  /\ pc \in {"search", "refined"}
  /\ Unrouted = {}
  /\ solution' = Some(routes)
  /\ pc' = "solved"
  /\ UNCHANGED <<json_data, data, vehicle, cache_callbacks, evaluators,
                 dimension, routes, stdout>>

\* line 199: the search ends without a first solution
SolveNotFound ==
  /\ pc = "search"
  /\ Unrouted # {}
  /\ solution' = None
  /\ pc' = "solved"
  /\ UNCHANGED <<json_data, data, vehicle, cache_callbacks, evaluators,
                 dimension, routes, stdout>>

\* lines 202-203, a solution
PrintSolution ==
  /\ pc = "solved"
  /\ solution # None
  /\ stdout' = stdout \o print_solution(solution[1])
  /\ pc' = "done"
  /\ UNCHANGED <<json_data, data, vehicle, cache_callbacks, evaluators,
                 dimension, routes, solution>>

\* lines 202-203, no solution
NoSolution ==
  /\ pc = "solved"
  /\ solution = None
  /\ pc' = "done"
  /\ UNCHANGED <<json_data, data, vehicle, cache_callbacks, evaluators,
                 dimension, routes, solution, stdout>>

Next ==
  \/ CreateDataModel
  \/ CreateRouting
  \/ ManagerRejects
  \/ RegisterCostCallback
  \/ AddDimension
  \/ DimensionRejects
  \/ \E m \in Missions, v \in DOMAIN routes :
       \E pos \in 1..(Len(routes[v]) + 1) : Insert(m, v, pos)
  \/ \E m \in Missions, v \in DOMAIN routes :
       \E pos \in 1..(Len(routes[v]) + 1) : Relocate(m, v, pos)
  \/ SolveFound
  \/ SolveNotFound
  \/ PrintSolution
  \/ NoSolution

Spec == Init /\ [][Next]_vars
SpecSolve == InitSolve /\ [][Next]_vars
SpecCost == InitCost /\ [][Next]_vars

(***************************************************************************)
(* Notions the properties are stated in.                                   *)
(***************************************************************************)
Searching == pc \in {"search", "refined"}
Returned == pc \in {"solved", "done"} /\ solution # None

\* the load after the first k missions of a route: 0 at the depot, plus
\* the signed demand of each visited node in order
Load(route, k) == SumSeq([i \in 1..k |-> data.demands[route[i]]])

WithinCapacity(rs) ==
  \A v \in DOMAIN rs : \A k \in 0..Len(rs[v]) :
     /\ 0 <= Load(rs[v], k)
     /\ Load(rs[v], k) <= data.vehicle_capacities[v]

Occurrences(rs, m) ==
  SumSeq([v \in DOMAIN rs |->
            Cardinality({i \in 1..Len(rs[v]) : rs[v][i] = m})])

RECURSIVE Assignments(_)
\* every way to place the missions 1..k on the routes of the vehicles
Assignments(k) ==
  IF k = 0 THEN {[v \in VehicleIds |-> <<>>]}
  ELSE UNION {UNION {{[r EXCEPT ![v] = InsertAt(r[v], pos, k)] :
                        pos \in 1..(Len(r[v]) + 1)} :
                     v \in VehicleIds} :
              r \in Assignments(k - 1)}

FeasibleAssignmentExists ==
  \E r \in Assignments(Len(json_data.missions)) : WithinCapacity(r)

(***************************************************************************)
(* Properties of the search, checked under SpecSolve.                      *)
(***************************************************************************)
\* C1: in every state of the search (the constructed solution and the state
\* after every accepted local-search move included) and in the solution
\* returned, the load of every route, 0 at the depot plus the signed demand
\* of each visited node in order, is at least 0 and at most the capacity of
\* the route's vehicle at every prefix.
C1_LoadWithinCapacity ==
  /\ Searching => WithinCapacity(routes)
  /\ Returned => WithinCapacity(solution[1])

\* an accepted local-search move has left a route loaded to the capacity
\* of its vehicle
C1_Witness ==
  /\ pc = "refined"
  /\ \E v \in DOMAIN routes :
       /\ data.vehicle_capacities[v] >= 1
       /\ Len(routes[v]) >= 1
       /\ Load(routes[v], Len(routes[v])) = data.vehicle_capacities[v]

C7_EveryMissionOnce ==
  /\ Returned =>
       /\ \A m \in Missions : Occurrences(solution[1], m) = 1
       /\ \A v \in DOMAIN solution[1] : Range(solution[1][v]) \subseteq Missions
  /\ (pc = "done" /\ solution # None) =>
       \A v \in VehicleIds :
          /\ stdout[v].plan[1] = 0
          /\ stdout[v].plan[Len(stdout[v].plan)] = 0
          /\ SubSeq(stdout[v].plan, 2, Len(stdout[v].plan) - 1) = solution[1][v]

\* a solution over two vehicles, each with a mission, has been reported
C7_Witness ==
  /\ pc = "done"
  /\ solution # None
  /\ Len(solution[1]) = 2
  /\ \A v \in DOMAIN solution[1] : Len(solution[1][v]) >= 1

\* C10: in every solution returned, every prefix of every route holds at
\* least as many from-hub missions as return missions, so no route begins
\* with a return mission; and an input of at least one mission, all of them
\* return missions, gets no solution.
C10_FromHubBeforeReturn ==
  /\ Returned =>
       \A v \in DOMAIN solution[1] : \A k \in 1..Len(solution[1][v]) :
          Cardinality({i \in 1..k : json_data.missions[solution[1][v][i]].return})
            <= Cardinality({i \in 1..k : ~json_data.missions[solution[1][v][i]].return})
  /\ (pc \in {"solved", "done"} /\ Missions # {}
        /\ \A m \in Missions : json_data.missions[m].return)
       => solution = None

\* a returned route visits a return mission after a from-hub mission
C10_Witness ==
  /\ Returned
  /\ \E v \in DOMAIN solution[1] : \E i \in 2..Len(solution[1][v]) :
       /\ json_data.missions[solution[1][v][i]].return
       /\ ~json_data.missions[solution[1][v][i - 1]].return

(***************************************************************************)
(* Properties of the fleet, checked under Spec.                            *)
(***************************************************************************)
Types == json_data.Vehicles
Counts == [i \in 1..Len(Types) |-> Types[i].number_of_vehicles]
ValidMapping ==
  \A i \in 1..Len(Types) : Types[i].capacity > 0 /\ Counts[i] >= 0
Offset(i) == SumSeq(SubSeq(Counts, 1, i - 1))

\* C5, as claimed: a mapping with a non-positive capacity or a negative
\* count fails with ConfigurationError before any routing model is built.
C5_ConfigurationError ==
  ~ValidMapping => pc \in {"start", "ConfigurationError"}

\* C8: for a valid mapping, num_vehicles and the lengths of the capacity,
\* distance_cost and delivery_cost lists equal the sum of the counts, the
\* vehicles of each type fill one contiguous block in the order of the
\* mapping, and each carries the values of its own type.
C8_FleetExpansion ==
  (pc # "start" /\ ValidMapping) =>
     /\ data.num_vehicles = SumSeq(Counts)
     /\ Len(data.vehicle_capacities) = SumSeq(Counts)
     /\ Len(data.vehicle_costs.distance_cost) = SumSeq(Counts)
     /\ Len(data.vehicle_costs.delivery_cost) = SumSeq(Counts)
     /\ \A i \in 1..Len(Types) : \A k \in 1..Counts[i] :
          /\ data.vehicle_capacities[Offset(i) + k] = Types[i].capacity
          /\ data.vehicle_costs.distance_cost[Offset(i) + k]
               = Types[i].cost_per_kilometers
          /\ data.vehicle_costs.delivery_cost[Offset(i) + k]
               = Types[i].cost_per_delivery

\* the data model of two differing types, two vehicles of the first
C8_Witness ==
  /\ pc = "data"
  /\ ValidMapping
  /\ Len(Types) = 2
  /\ Counts[1] = 2
  /\ Counts[2] >= 1
  /\ Types[1].capacity # Types[2].capacity
  /\ Types[1].cost_per_kilometers # Types[2].cost_per_kilometers
  /\ Types[1].cost_per_delivery # Types[2].cost_per_delivery

(***************************************************************************)
(* Properties of distances and costs, checked under SpecCost.              *)
(***************************************************************************)
RoundHalfUp(h) == (h + 1) \div 2

\* C2, as claimed: for every vehicle and every arc of its route, the cost
\* the report recomputes equals the cost the vehicle's arc-cost evaluator
\* gives, so the reported route cost is the sum of those arc costs.
C2_ReportMatchesCostModel ==
  (pc = "done" /\ solution # None) =>
     \A v \in VehicleIds :
        LET route == solution[1][v]
        IN  /\ \A i \in 1..Len(Visited(route)) :
                 SegmentCost(v, Visited(route)[i], NextOf(route, i))
                   = 2 * ArcCostEvaluator(v, Visited(route)[i], NextOf(route, i))
            /\ stdout[v].cost
                 = 2 * SumSeq([i \in 1..Len(Visited(route)) |->
                         ArcCostEvaluator(v, Visited(route)[i], NextOf(route, i))])

\* C3, as claimed: during the search the evaluator of vehicle v computes
\* the cost from the coefficients of vehicle v.
C3_OwnCoefficients ==
  Searching =>
     \A v \in VehicleIds : \A f \in Nodes : \A t \in Nodes :
        ArcCostEvaluator(v, f, t) = cost_callback(v, f, t)

\* C6, as claimed: the arc cost is a non-negative integer, the product of
\* distance_cost and distance rounded half-up, plus delivery_cost exactly
\* when neither end is the depot.
C6_ArcCostHalfUp ==
  Searching =>
     \A v \in VehicleIds : \A f \in Nodes : \A t \in Nodes :
        LET product == data.vehicle_costs.distance_cost[v]
                         * data.distance_matrix[f][t]
            surcharge == IF f # 0 /\ t # 0
                         THEN data.vehicle_costs.delivery_cost[v] ELSE 0
        IN  /\ ArcCostEvaluator(v, f, t) >= 0
            /\ 2 * ArcCostEvaluator(v, f, t) = 2 * RoundHalfUp(product) + surcharge

\* C9, as claimed: the matrix is square over the locations, its entry
\* [i][j] is the distance of (latitude_i, longitude_i) and (latitude_j,
\* longitude_j), it is symmetric and its diagonal is zero.
C9_DistanceMatrix ==
  pc # "start" =>
     LET L == Locations(json_data)
     IN  /\ DOMAIN data.distance_matrix = 0..(Len(L) - 1)
         /\ \A i \in Nodes : DOMAIN data.distance_matrix[i] = 0..(Len(L) - 1)
         /\ \A i \in Nodes : \A j \in Nodes :
              /\ data.distance_matrix[i][j]
                   = haversine(L[i + 1][1], L[i + 1][2], L[j + 1][1], L[j + 1][2])
              /\ data.distance_matrix[i][j] = data.distance_matrix[j][i]
         /\ \A i \in Nodes : data.distance_matrix[i][i] = 0

=============================================================================
